---- MODULE Spec2Model ----
(***************************************************************************)
(* Model of src/app.py: the API object of the vision translator.           *)
(*                                                                         *)
(* One thread of control per invocation of capture_and_translate; the      *)
(* thread pool self._executor runs _translate_fragment for each fragment.  *)
(* The disk holds at most one file of interest, temp_capture.png.          *)
(*                                                                         *)
(* Numbers: the normalized boxes and the pixel values of the code are      *)
(* floats; the model keeps them exactly, in fixed point with One units     *)
(* standing for 1.0 (a box coordinate k is k/One, a pixel value v is       *)
(* v/One pixels).  Rounding of IEEE doubles is not modelled.               *)
(***************************************************************************)
EXTENDS Integers, Sequences, FiniteSets, TLC

VARIABLES
    api,               \* "none" before API() is constructed, "ready" after
    disk,              \* the state of the file temp_capture.png
    removable,         \* FALSE while a file of an earlier process that os.remove
                       \* cannot remove is on disk
    pc,                \* per thread: the place in capture_and_translate
    runNo,             \* per thread: number of invocations started
    captured,          \* per thread: what screencapture did in this run
    ocrStatus,         \* per thread: what the OCR engine did in this run
    results,           \* per thread: the list returned by _ocr_vision
    fut,               \* per thread: the futures of executor.map, by index
    queue,             \* the executor's work queue (FIFO of <<thread, index>>)
    completed,         \* per thread: the indices in the order their futures completed
    calls,             \* per thread: calls made to the translator, by index
    failed,            \* per thread: indices whose translator call raised
    translated_texts,  \* per thread: list(executor.map(...))
    img,               \* per thread: the opened image and what was drawn on it
    i,                 \* per thread: the loop index of "for i, item in ..."
    rect,              \* per thread: x, y, w, h of the current fragment
    result             \* per thread: the value returned by the call

vars == <<api, disk, removable, pc, runNo, captured, ocrStatus, results, fut, completed, queue,
          calls, failed, translated_texts, img, i, rect, result>>

----------------------------------------------------------------------------
(* Bounds of the model *)

MaxFrags == 2          \* longest list the OCR engine returns

MaxRuns == 2           \* invocations of capture_and_translate per thread

(* Program constants *)

One == 10              \* the float 1.0 of line 93, in fixed point

FontSize == 14         \* line 84

padding == 2           \* line 98

max_workers == 10      \* line 22

----------------------------------------------------------------------------
(* Inputs the collaborators can produce *)

\* Texts are sequences of code points: "Hi", hiragana A (U+3042), "H" followed
\* by hiragana A, and U+303F (the code point just below the hiragana block).
Texts == { <<72, 105>>, <<12354>>, <<72, 12354>>, <<12351>> }

Boxes == { [x |-> 1, y |-> 8, w |-> 3, h |-> 1],
           [x |-> 2, y |-> 7, w |-> 5, h |-> 2] }

Sizes == { <<100, 100>>, <<3, 2>> }

Fragments == [text : Texts, box : Boxes]

RECURSIVE SeqsUpTo(_, _)
SeqsUpTo(S, n) ==
    IF n = 0 THEN { <<>> }
    ELSE LET shorter == SeqsUpTo(S, n - 1)
         IN  shorter \cup { Append(s, e) : s \in { q \in shorter : Len(q) = n - 1 }, e \in S }

----------------------------------------------------------------------------
(* The disk *)

NoFile == [exists |-> FALSE, writer |-> 0, run |-> 0, size |-> <<0, 0>>]

\* A capture file left behind by an earlier process.
Leftover == [exists |-> TRUE, writer |-> 0, run |-> 0, size |-> <<100, 100>>]

CaptureFile(t, n, size) == [exists |-> TRUE, writer |-> t, run |-> n, size |-> size]

----------------------------------------------------------------------------
(* Results and exceptions *)

NoResult == [kind |-> "none", error |-> "", image |-> <<>>]

ErrorResult(msg) == [kind |-> "error", error |-> msg, image |-> <<>>]

ImageResult(data) == [kind |-> "image", error |-> "", image |-> data]

Raised(exc) == [kind |-> "raised", error |-> exc.msg, image |-> <<>>]

CalledProcessError == [type |-> "CalledProcessError", msg |-> "screencapture exit status"]

Exc(msg) == [type |-> "Exception", msg |-> msg]

\* Variant of Except: only the CalledProcessError clause (lines 117-118).
Except_OnlyCalledProcessError(exc) ==
    IF exc.type = "CalledProcessError" THEN ErrorResult("Capture cancelled")
    ELSE Raised(exc)

\* The except clauses of capture_and_translate.
Except(exc) ==
    IF exc.type = "CalledProcessError" THEN ErrorResult("Capture cancelled")
    ELSE ErrorResult(exc.msg)

----------------------------------------------------------------------------
(* Pure helpers *)

\* The character class of the regular expression of line 50.
InTargetScript(c) ==
    \/ 12352 <= c /\ c <= 12447      \* U+3040-U+309F
    \/ 12448 <= c /\ c <= 12543      \* U+30A0-U+30FF
    \/ 19968 <= c /\ c <= 40959      \* U+4E00-U+9FFF

\* Variant of ReSearch: re.fullmatch of the class repeated, every character
\* in the class.
ReSearch_FullMatch(text) ==
    /\ Len(text) > 0
    /\ \A k \in 1..Len(text) : InTargetScript(text[k])

\* re.search(r'[...]', text)
ReSearch(text) == \E k \in 1..Len(text) : InTargetScript(text[k])

\* GoogleTranslator(source='auto', target='ja').translate(text), when it
\* returns: a black box, here a stub that maps each character into hiragana
\* and so gives different texts different translations.
GoogleTranslate(text) == [k \in 1..Len(text) |-> 12353 + (text[k] % 83)]

\* Variant of toPixelRect: the box height left out of the vertical flip.
toPixelRect_NoHeightInFlip(box, width, height) ==
    [x |-> box.x * width,
     y |-> (One - box.y) * height,
     w |-> box.w * width,
     h |-> box.h * height]

\* Lines 92-95, in fixed point (values in 1/One pixel).
toPixelRect(box, width, height) ==
    [x |-> box.x * width,
     y |-> (One - (box.y + box.h)) * height,
     w |-> box.w * width,
     h |-> box.h * height]

\* Variant of FillOp: the padding applied to the origin only.
FillOp_NoFarPadding(r) ==
    [op |-> "rectangle",
     x0 |-> r.x - padding * One, y0 |-> r.y - padding * One,
     x1 |-> r.x + r.w, y1 |-> r.y + r.h,
     text |-> <<>>, fill |-> "white"]

\* The argument of draw.rectangle, lines 99-102.
FillOp(r) ==
    [op |-> "rectangle",
     x0 |-> r.x - padding * One, y0 |-> r.y - padding * One,
     x1 |-> r.x + r.w + padding * One, y1 |-> r.y + r.h + padding * One,
     text |-> <<>>, fill |-> "white"]

\* The arguments of draw.text, line 103.
TextOp(r, translated) ==
    [op |-> "text", x0 |-> r.x, y0 |-> r.y, x1 |-> r.x, y1 |-> r.y,
     text |-> translated, fill |-> "black"]

\* Lines 106-108: PNG-encode, base64-encode, and the data URI of line 115.
DataUri(image) == <<"data:image/png;base64", image.size, image.ops>>

NoImage == [size |-> <<0, 0>>, ops |-> <<>>]

NoRect == [x |-> 0, y |-> 0, w |-> 0, h |-> 0]

----------------------------------------------------------------------------
Threads == DOMAIN pc

InitThreads(T) ==
    /\ api = "none"
    /\ disk \in {NoFile, Leftover}
    /\ removable \in (IF disk.exists THEN BOOLEAN ELSE {TRUE})
    /\ pc = [t \in T |-> "idle"]
    /\ runNo = [t \in T |-> 0]
    /\ captured = [t \in T |-> "none"]
    /\ ocrStatus = [t \in T |-> "none"]
    /\ results = [t \in T |-> <<>>]
    /\ fut = [t \in T |-> <<>>]
    /\ completed = [t \in T |-> <<>>]
    /\ queue = <<>>
    /\ calls = [t \in T |-> <<>>]
    /\ failed = [t \in T |-> {}]
    /\ translated_texts = [t \in T |-> <<>>]
    /\ img = [t \in T |-> NoImage]
    /\ i = [t \in T |-> 0]
    /\ rect = [t \in T |-> NoRect]
    /\ result = [t \in T |-> NoResult]

Init == InitThreads({1})

----------------------------------------------------------------------------
(* API.__init__ and API._cleanup *)

\* Variant of Construct: __init__ without the call of _cleanup (line 26).
Construct_NoCleanup ==
    /\ api = "none"
    /\ ~disk.exists \/ removable
    /\ api' = "ready"
    /\ UNCHANGED <<disk, removable, pc, runNo, captured, ocrStatus, results, fut,
                   completed, queue, calls, failed, translated_texts, img, i, rect,
                   result>>

\* __init__ with _cleanup when the file is absent or os.remove succeeds.
Construct ==
    /\ api = "none"
    /\ ~disk.exists \/ removable
    /\ api' = "ready"
    /\ disk' = NoFile
    /\ UNCHANGED <<removable, pc, runNo, captured, ocrStatus, results, fut, completed, queue, calls,
                   failed, translated_texts, img, i, rect, result>>

\* _cleanup when os.remove raises: the bare except swallows it.
ConstructRemoveFails ==
    /\ api = "none"
    /\ disk.exists /\ ~removable
    /\ api' = "ready"
    /\ UNCHANGED <<disk, removable, pc, runNo, captured, ocrStatus, results, fut, completed, queue,
                   calls, failed, translated_texts, img, i, rect, result>>

----------------------------------------------------------------------------
(* capture_and_translate *)

\* return <res> from capture_and_translate
Return(t, res) ==
    /\ pc' = [pc EXCEPT ![t] = "returned"]
    /\ result' = [result EXCEPT ![t] = res]

\* an exception raised inside the try block of line 58
Raise(t, exc) == Return(t, Except(exc))

\* The UI calls capture_and_translate.
Invoke(t) ==
    /\ api = "ready"
    /\ pc[t] \in {"idle", "returned"}
    /\ runNo[t] < MaxRuns
    /\ pc' = [pc EXCEPT ![t] = "capture"]
    /\ runNo' = [runNo EXCEPT ![t] = @ + 1]
    /\ captured' = [captured EXCEPT ![t] = "none"]
    /\ ocrStatus' = [ocrStatus EXCEPT ![t] = "none"]
    /\ results' = [results EXCEPT ![t] = <<>>]
    /\ fut' = [fut EXCEPT ![t] = <<>>]
    /\ completed' = [completed EXCEPT ![t] = <<>>]
    /\ calls' = [calls EXCEPT ![t] = <<>>]
    /\ failed' = [failed EXCEPT ![t] = {}]
    /\ translated_texts' = [translated_texts EXCEPT ![t] = <<>>]
    /\ img' = [img EXCEPT ![t] = NoImage]
    /\ i' = [i EXCEPT ![t] = 0]
    /\ rect' = [rect EXCEPT ![t] = NoRect]
    /\ result' = [result EXCEPT ![t] = NoResult]
    /\ UNCHANGED <<api, removable, disk, queue>>

\* Line 60: the user selects a region, screencapture writes the file.
CaptureWrites(t) ==
    /\ pc[t] = "capture"
    /\ \E size \in Sizes : disk' = CaptureFile(t, runNo[t], size)
    /\ removable' = TRUE
    /\ captured' = [captured EXCEPT ![t] = "wrote"]
    /\ pc' = [pc EXCEPT ![t] = "check"]
    /\ UNCHANGED <<api, runNo, ocrStatus, results, fut, completed, queue, calls, failed,
                   translated_texts, img, i, rect, result>>

\* Line 60: the user cancels; screencapture writes nothing and exits with 0.
CaptureCancelled(t) ==
    /\ pc[t] = "capture"
    /\ captured' = [captured EXCEPT ![t] = "nofile"]
    /\ pc' = [pc EXCEPT ![t] = "check"]
    /\ UNCHANGED <<api, removable, disk, runNo, ocrStatus, results, fut, completed, queue, calls,
                   failed, translated_texts, img, i, rect, result>>

\* Line 60: screencapture writes nothing and exits with a non-zero status;
\* check=True raises CalledProcessError.
CaptureExitNonZero(t) ==
    /\ pc[t] = "capture"
    /\ captured' = [captured EXCEPT ![t] = "nofile"]
    /\ Raise(t, CalledProcessError)
    /\ UNCHANGED <<api, removable, disk, runNo, ocrStatus, results, fut, completed, queue, calls,
                   failed, translated_texts, img, i, rect>>

\* Line 60: subprocess.run itself fails (no screencapture binary): the
\* collaborator never ran.
CaptureRaises(t) ==
    /\ pc[t] = "capture"
    /\ captured' = [captured EXCEPT ![t] = "unlaunched"]
    /\ Raise(t, Exc("capture"))
    /\ UNCHANGED <<api, removable, disk, runNo, ocrStatus, results, fut, completed, queue, calls,
                   failed, translated_texts, img, i, rect>>

\* Lines 62-63.
CheckExists(t) ==
    /\ pc[t] = "check"
    /\ IF ~disk.exists
       THEN Return(t, ErrorResult("Canceled or failed to capture"))
       ELSE /\ pc' = [pc EXCEPT ![t] = "ocr"]
            /\ UNCHANGED result
    /\ UNCHANGED <<api, removable, disk, runNo, captured, ocrStatus, results, fut, completed, queue,
                   calls, failed, translated_texts, img, i, rect>>

\* _ocr_vision, lines 140-163: [] when performRequests reports failure, else
\* one entry per recognized region.
OcrVision(success, data) == IF ~success THEN <<>> ELSE data

\* Lines 66-70 once _ocr_vision has returned.
AfterOcr(t, status, res) ==
    /\ ocrStatus' = [ocrStatus EXCEPT ![t] = status]
    /\ results' = [results EXCEPT ![t] = res]
    /\ IF res = <<>>
       THEN Return(t, ErrorResult("No text detected"))
       ELSE /\ pc' = [pc EXCEPT ![t] = "submit"]
            /\ UNCHANGED result
    /\ UNCHANGED <<api, removable, disk, runNo, captured, fut, completed, queue, calls, failed,
                   translated_texts, img, i, rect>>

\* Line 66: the engine succeeds and recognizes 0..MaxFrags regions.
OcrReturns(t) ==
    /\ pc[t] = "ocr"
    /\ disk.exists
    /\ \E data \in SeqsUpTo(Fragments, MaxFrags) :
          AfterOcr(t, "ok", OcrVision(TRUE, data))

\* Line 66: the engine reports failure (performRequests is not successful).
OcrEngineFails(t) ==
    /\ pc[t] = "ocr"
    /\ AfterOcr(t, "failed", OcrVision(FALSE, <<>>))

\* Line 66: _ocr_vision raises (the bridge to the Vision framework fails).
OcrRaises(t) ==
    /\ pc[t] = "ocr"
    /\ ocrStatus' = [ocrStatus EXCEPT ![t] = "raised"]
    /\ Raise(t, Exc("ocr"))
    /\ UNCHANGED <<api, removable, disk, runNo, captured, results, fut, completed, queue, calls,
                   failed, translated_texts, img, i, rect>>

----------------------------------------------------------------------------
(* Translation: executor.map(self._translate_fragment, texts_to_translate) *)

Pending(st) == [st |-> st, val |-> <<>>]

Done(val) == [st |-> "done", val |-> val]

\* worker threads that hold a work item
Busy == { w \in UNION { {t} \X DOMAIN fut[t] : t \in Threads } :
             fut[w[1]][w[2]].st = "calling" }

\* Lines 73-74: map submits one work item per text, in order.
Submit(t) ==
    /\ pc[t] = "submit"
    /\ LET n == Len(results[t])
       IN  /\ fut' = [fut EXCEPT ![t] = [k \in 1..n |-> Pending("queued")]]
           /\ calls' = [calls EXCEPT ![t] = [k \in 1..n |-> 0]]
           /\ queue' = queue \o [k \in 1..n |-> <<t, k>>]
    /\ pc' = [pc EXCEPT ![t] = "await"]
    /\ UNCHANGED <<api, removable, disk, runNo, captured, ocrStatus, results, completed, failed,
                   translated_texts, img, i, rect, result>>

\* Variant of OnTranslateError: the except clause returns nothing.
OnTranslateError_Empty(text) == <<>>

\* Lines 53-55: the except clause of _translate_fragment.
OnTranslateError(text) == text

\* Variant of WorkerRun: every submitted call is started at once, with no
\* limit on the number of workers.
WorkerRun_Unbounded(t, k) ==
    /\ queue # <<>>
    /\ Head(queue) = <<t, k>>
    /\ queue' = Tail(queue)
    /\ LET text == results[t][k].text
       IN  IF ReSearch(text)
           THEN /\ fut' = [fut EXCEPT ![t][k] = Done(text)]
                /\ completed' = [completed EXCEPT ![t] = Append(@, k)]
                /\ UNCHANGED calls
           ELSE /\ fut' = [fut EXCEPT ![t][k] = Pending("calling")]
                /\ calls' = [calls EXCEPT ![t][k] = @ + 1]
                /\ UNCHANGED completed
    /\ UNCHANGED <<api, removable, disk, pc, runNo, captured, ocrStatus, results, failed,
                   translated_texts, img, i, rect, result>>

\* A worker takes the oldest work item and runs _translate_fragment up to
\* the call of the translator (lines 48-52).
WorkerRun(t, k) ==
    /\ queue # <<>>
    /\ Head(queue) = <<t, k>>
    /\ Cardinality(Busy) < max_workers
    /\ queue' = Tail(queue)
    /\ LET text == results[t][k].text
       IN  IF ReSearch(text)
           THEN /\ fut' = [fut EXCEPT ![t][k] = Done(text)]
                /\ completed' = [completed EXCEPT ![t] = Append(@, k)]
                /\ UNCHANGED calls
           ELSE /\ fut' = [fut EXCEPT ![t][k] = Pending("calling")]
                /\ calls' = [calls EXCEPT ![t][k] = @ + 1]
                /\ UNCHANGED completed
    /\ UNCHANGED <<api, removable, disk, pc, runNo, captured, ocrStatus, results, failed,
                   translated_texts, img, i, rect, result>>

\* Line 52: the translator returns.
TranslatorReturns(t, k) ==
    /\ k \in DOMAIN fut[t]
    /\ fut[t][k].st = "calling"
    /\ fut' = [fut EXCEPT ![t][k] = Done(GoogleTranslate(results[t][k].text))]
    /\ completed' = [completed EXCEPT ![t] = Append(@, k)]
    /\ UNCHANGED <<api, removable, disk, pc, runNo, captured, ocrStatus, results, queue,
                   calls, failed, translated_texts, img, i, rect, result>>

\* Variant of TranslatorRaises: the except clause calls the translator again.
TranslatorRaises_Retry(t, k) ==
    /\ k \in DOMAIN fut[t]
    /\ fut[t][k].st = "calling"
    /\ calls[t][k] < 2
    /\ calls' = [calls EXCEPT ![t][k] = @ + 1]
    /\ failed' = [failed EXCEPT ![t] = @ \cup {k}]
    /\ UNCHANGED <<api, removable, disk, pc, runNo, captured, ocrStatus, results, fut,
                   completed, queue, translated_texts, img, i, rect, result>>

\* Variant of TranslatorRaises: no except clause, the exception leaves
\* executor.map and ends the run.
TranslatorRaises_Abort(t, k) ==
    /\ k \in DOMAIN fut[t]
    /\ fut[t][k].st = "calling"
    /\ pc[t] = "await"
    /\ failed' = [failed EXCEPT ![t] = @ \cup {k}]
    /\ queue' = SelectSeq(queue, LAMBDA w : w[1] # t)
    /\ Raise(t, Exc("translation"))
    /\ UNCHANGED <<api, removable, disk, runNo, captured, ocrStatus, results, fut,
                   completed, calls, translated_texts, img, i, rect>>

\* Variant of TranslatorRaises: the exception ends the worker and the
\* future never gets a result.
TranslatorRaises_Lost(t, k) ==
    /\ k \in DOMAIN fut[t]
    /\ fut[t][k].st = "calling"
    /\ fut' = [fut EXCEPT ![t][k] = Pending("lost")]
    /\ failed' = [failed EXCEPT ![t] = @ \cup {k}]
    /\ UNCHANGED <<api, removable, disk, pc, runNo, captured, ocrStatus, results,
                   completed, queue, calls, translated_texts, img, i, rect, result>>

\* Line 52 raises; lines 53-55 return the source text.
TranslatorRaises(t, k) ==
    /\ k \in DOMAIN fut[t]
    /\ fut[t][k].st = "calling"
    /\ fut' = [fut EXCEPT ![t][k] = Done(OnTranslateError(results[t][k].text))]
    /\ completed' = [completed EXCEPT ![t] = Append(@, k)]
    /\ failed' = [failed EXCEPT ![t] = @ \cup {k}]
    /\ UNCHANGED <<api, removable, disk, pc, runNo, captured, ocrStatus, results, queue,
                   calls, translated_texts, img, i, rect, result>>

\* Variant of MapResults: the results in the order the calls completed.
MapResults_AsCompleted(t) == [k \in 1..Len(fut[t]) |-> fut[t][completed[t][k]].val]

\* The iterator of executor.map: the results of the futures, by index.
MapResults(t) == [k \in 1..Len(fut[t]) |-> fut[t][k].val]

\* Variant of Collect: the results are taken without waiting for every
\* future (the first one is enough).
Collect_NoBarrier(t) ==
    /\ pc[t] = "await"
    /\ fut[t][1].st = "done"
    /\ translated_texts' = [translated_texts EXCEPT ![t] = MapResults(t)]
    /\ pc' = [pc EXCEPT ![t] = "open"]
    /\ UNCHANGED <<api, removable, disk, runNo, captured, ocrStatus, results, fut,
                   completed, queue, calls, failed, img, i, rect, result>>

\* Line 74: list(...) returns once every future has its result.
Collect(t) ==
    /\ pc[t] = "await"
    /\ \A k \in DOMAIN fut[t] : fut[t][k].st = "done"
    /\ translated_texts' = [translated_texts EXCEPT ![t] = MapResults(t)]
    /\ pc' = [pc EXCEPT ![t] = "open"]
    /\ UNCHANGED <<api, removable, disk, runNo, captured, ocrStatus, results, fut, completed, queue,
                   calls, failed, img, i, rect, result>>

----------------------------------------------------------------------------
(* Image processing *)

\* Lines 78-86: open the capture file, make the drawing context, load the font.
OpenImage(t) ==
    /\ pc[t] = "open"
    /\ disk.exists
    /\ img' = [img EXCEPT ![t] = [size |-> disk.size, ops |-> <<>>]]
    /\ i' = [i EXCEPT ![t] = 1]
    /\ pc' = [pc EXCEPT ![t] = "map"]
    /\ UNCHANGED <<api, removable, disk, runNo, captured, ocrStatus, results, fut, completed, queue,
                   calls, failed, translated_texts, rect, result>>

\* Lines 78-86 raise (the file cannot be read, the font cannot be loaded).
OpenRaises(t) ==
    /\ pc[t] = "open"
    /\ Raise(t, Exc("open"))
    /\ UNCHANGED <<api, removable, disk, runNo, captured, ocrStatus, results, fut, completed, queue,
                   calls, failed, translated_texts, img, i, rect>>

\* Lines 88-95: the next fragment's box in pixels.
MapBox(t) ==
    /\ pc[t] = "map"
    /\ rect' = [rect EXCEPT ![t] =
                  toPixelRect(results[t][i[t]].box, img[t].size[1], img[t].size[2])]
    /\ pc' = [pc EXCEPT ![t] = "draw"]
    /\ UNCHANGED <<api, removable, disk, runNo, captured, ocrStatus, results, fut, completed, queue,
                   calls, failed, translated_texts, img, i, result>>

\* Variant of LoopNext: the translation is done inside the loop.
LoopNext_Retranslate(k, n) == IF k < n THEN "submit" ELSE "encode"

\* The for statement of line 88 after the body ran for index k of n.
LoopNext(k, n) == IF k < n THEN "map" ELSE "encode"

\* Variant of Draw: what is drawn for a fragment ends up below what was
\* drawn before it (the fragments composited in descending order).
Draw_Beneath(t) ==
    /\ pc[t] = "draw"
    /\ img' = [img EXCEPT ![t].ops =
                 << FillOp(rect[t]), TextOp(rect[t], translated_texts[t][i[t]]) >> \o @]
    /\ i' = [i EXCEPT ![t] = @ + 1]
    /\ pc' = [pc EXCEPT ![t] = LoopNext(i[t], Len(results[t]))]
    /\ UNCHANGED <<api, removable, disk, runNo, captured, ocrStatus, results, fut,
                   completed, queue, calls, failed, translated_texts, rect, result>>

\* Lines 97-103: background, then text.
Draw(t) ==
    /\ pc[t] = "draw"
    /\ img' = [img EXCEPT ![t].ops =
                 @ \o << FillOp(rect[t]), TextOp(rect[t], translated_texts[t][i[t]]) >>]
    /\ i' = [i EXCEPT ![t] = @ + 1]
    /\ pc' = [pc EXCEPT ![t] = LoopNext(i[t], Len(results[t]))]
    /\ UNCHANGED <<api, removable, disk, runNo, captured, ocrStatus, results, fut, completed, queue,
                   calls, failed, translated_texts, rect, result>>

\* Lines 97-103 raise.
DrawRaises(t) ==
    /\ pc[t] = "draw"
    /\ Raise(t, Exc("draw"))
    /\ UNCHANGED <<api, removable, disk, runNo, captured, ocrStatus, results, fut, completed, queue,
                   calls, failed, translated_texts, img, i, rect>>

\* Lines 105-108.
Encode(t) ==
    /\ pc[t] = "encode"
    /\ pc' = [pc EXCEPT ![t] = "cleanup"]
    /\ UNCHANGED <<api, removable, disk, runNo, captured, ocrStatus, results, fut, completed, queue,
                   calls, failed, translated_texts, img, i, rect, result>>

\* Lines 105-108 raise.
EncodeRaises(t) ==
    /\ pc[t] = "encode"
    /\ Raise(t, Exc("encode"))
    /\ UNCHANGED <<api, removable, disk, runNo, captured, ocrStatus, results, fut, completed, queue,
                   calls, failed, translated_texts, img, i, rect>>

\* Lines 110-116: remove the file if it is there, return the image.
Cleanup(t) ==
    /\ pc[t] = "cleanup"
    /\ disk' = NoFile
    /\ removable' = TRUE
    /\ Return(t, ImageResult(DataUri(img[t])))
    /\ UNCHANGED <<api, runNo, captured, ocrStatus, results, fut, completed, queue, calls,
                   failed, translated_texts, img, i, rect>>

\* Line 112 raises: os.remove fails.
CleanupRaises(t) ==
    /\ pc[t] = "cleanup"
    /\ disk.exists
    /\ Raise(t, Exc("cleanup"))
    /\ UNCHANGED <<api, removable, disk, runNo, captured, ocrStatus, results, fut, completed, queue,
                   calls, failed, translated_texts, img, i, rect>>

----------------------------------------------------------------------------
Next ==
    \/ Construct
    \/ ConstructRemoveFails
    \/ \E t \in Threads : Invoke(t)
    \/ \E t \in Threads : CaptureWrites(t)
    \/ \E t \in Threads : CaptureCancelled(t)
    \/ \E t \in Threads : CaptureExitNonZero(t)
    \/ \E t \in Threads : CaptureRaises(t)
    \/ \E t \in Threads : CheckExists(t)
    \/ \E t \in Threads : OcrReturns(t)
    \/ \E t \in Threads : OcrEngineFails(t)
    \/ \E t \in Threads : OcrRaises(t)
    \/ \E t \in Threads : Submit(t)
    \/ \E t \in Threads, k \in 1..MaxFrags : WorkerRun(t, k)
    \/ \E t \in Threads, k \in 1..MaxFrags : TranslatorReturns(t, k)
    \/ \E t \in Threads, k \in 1..MaxFrags : TranslatorRaises(t, k)
    \/ \E t \in Threads : Collect(t)
    \/ \E t \in Threads : OpenImage(t)
    \/ \E t \in Threads : OpenRaises(t)
    \/ \E t \in Threads : MapBox(t)
    \/ \E t \in Threads : Draw(t)
    \/ \E t \in Threads : DrawRaises(t)
    \/ \E t \in Threads : Encode(t)
    \/ \E t \in Threads : EncodeRaises(t)
    \/ \E t \in Threads : Cleanup(t)
    \/ \E t \in Threads : CleanupRaises(t)

Spec == Init /\ [][Next]_vars

----------------------------------------------------------------------------
(* Progress.  A thread inside capture_and_translate keeps running, the pool *)
(* runs queued work when a worker is free, and, by assumption, the capture  *)
(* call returns and every translator call returns or raises.                *)

RunThreads == {1}

\* the steps of thread t itself from the capture call to the return
ThreadStep(t) ==
    \/ CaptureWrites(t) \/ CaptureCancelled(t) \/ CaptureExitNonZero(t) \/ CaptureRaises(t)
    \/ CheckExists(t)
    \/ OcrReturns(t) \/ OcrEngineFails(t) \/ OcrRaises(t)
    \/ Submit(t) \/ Collect(t)
    \/ OpenImage(t) \/ OpenRaises(t)
    \/ MapBox(t)
    \/ Draw(t) \/ DrawRaises(t)
    \/ Encode(t) \/ EncodeRaises(t)
    \/ Cleanup(t) \/ CleanupRaises(t)

Fairness ==
    \A t \in RunThreads :
        /\ WF_vars(ThreadStep(t))
        /\ \A k \in 1..MaxFrags :
              /\ WF_vars(WorkerRun(t, k))
              /\ WF_vars(TranslatorReturns(t, k) \/ TranslatorRaises(t, k))

FairSpec == Init /\ [][Next]_vars /\ Fairness

----------------------------------------------------------------------------
(* The executor under load: two overlapping invocations, one of them with   *)
(* more fragments than the pool has workers, both about to submit their     *)
(* texts.  The calls of the larger run return in the order they were        *)
(* started, those of the smaller run in any order; how many calls are in    *)
(* flight does not depend on which of them returns.  Only calls of the      *)
(* smaller run raise.                                                       *)

PoolFrags == 11        \* fragments of the larger run

PoolBox == [x |-> 1, y |-> 8, w |-> 3, h |-> 1]

InitPool ==
    \E other \in [1..2 -> Texts] :
        /\ api = "ready"
        /\ disk = CaptureFile(2, 1, <<100, 100>>)
        /\ removable = TRUE
        /\ pc = [t \in {1, 2} |-> "submit"]
        /\ runNo = [t \in {1, 2} |-> 1]
        /\ captured = [t \in {1, 2} |-> "wrote"]
        /\ ocrStatus = [t \in {1, 2} |-> "ok"]
        /\ results = [t \in {1, 2} |->
                        IF t = 1
                        THEN [k \in 1..PoolFrags |-> [text |-> <<72, 105>>, box |-> PoolBox]]
                        ELSE [k \in 1..2 |-> [text |-> other[k], box |-> PoolBox]]]
        /\ fut = [t \in {1, 2} |-> <<>>]
        /\ completed = [t \in {1, 2} |-> <<>>]
        /\ queue = <<>>
        /\ calls = [t \in {1, 2} |-> <<>>]
        /\ failed = [t \in {1, 2} |-> {}]
        /\ translated_texts = [t \in {1, 2} |-> <<>>]
        /\ img = [t \in {1, 2} |-> NoImage]
        /\ i = [t \in {1, 2} |-> 0]
        /\ rect = [t \in {1, 2} |-> NoRect]
        /\ result = [t \in {1, 2} |-> NoResult]

\* call k of thread t is in flight and may return next: any call of the
\* smaller run, the oldest call in flight of the larger one
MayReturn(t, k) ==
    /\ k \in DOMAIN fut[t]
    /\ fut[t][k].st = "calling"
    /\ t = 1 => \A j \in 1..(k - 1) : fut[t][j].st # "calling"

NextPool ==
    \/ \E t \in Threads : Submit(t)
    \/ \E t \in Threads, k \in 1..PoolFrags : WorkerRun(t, k)
    \/ \E t \in Threads, k \in 1..PoolFrags :
          MayReturn(t, k) /\ TranslatorReturns(t, k)
    \/ \E t \in Threads, k \in 1..PoolFrags :
          MayReturn(t, k) /\ t = 2 /\ TranslatorRaises(t, k)
    \/ \E t \in Threads : Collect(t)

SpecPool == InitPool /\ [][NextPool]_vars

----------------------------------------------------------------------------
(* Overlapping invocations: the UI calls capture_and_translate on two       *)
(* threads of the same API instance, once each.  The inputs are kept small: *)
(* one image size and at most one fragment, whose text needs a call.        *)

InitConc == InitThreads({1, 2})

ConcResults == { <<>>, << [text |-> <<72, 105>>, box |-> PoolBox] >> }

NextConc ==
    \/ Construct
    \/ ConstructRemoveFails
    \/ \E t \in Threads : runNo[t] = 0 /\ Invoke(t)
    \/ \E t \in Threads : CaptureWrites(t) /\ disk'.size = <<3, 2>>
    \/ \E t \in Threads : CaptureCancelled(t)
    \/ \E t \in Threads : CaptureExitNonZero(t)
    \/ \E t \in Threads : CaptureRaises(t)
    \/ \E t \in Threads : CheckExists(t)
    \/ \E t \in Threads : OcrReturns(t) /\ results'[t] \in ConcResults
    \/ \E t \in Threads : OcrEngineFails(t)
    \/ \E t \in Threads : OcrRaises(t)
    \/ \E t \in Threads : Submit(t)
    \/ \E t \in Threads, k \in 1..MaxFrags : WorkerRun(t, k)
    \/ \E t \in Threads, k \in 1..MaxFrags : TranslatorReturns(t, k)
    \/ \E t \in Threads, k \in 1..MaxFrags : TranslatorRaises(t, k)
    \/ \E t \in Threads : Collect(t)
    \/ \E t \in Threads : OpenImage(t)
    \/ \E t \in Threads : OpenRaises(t)
    \/ \E t \in Threads : MapBox(t)
    \/ \E t \in Threads : Draw(t)
    \/ \E t \in Threads : DrawRaises(t)
    \/ \E t \in Threads : Encode(t)
    \/ \E t \in Threads : EncodeRaises(t)
    \/ \E t \in Threads : Cleanup(t)
    \/ \E t \in Threads : CleanupRaises(t)

SpecConc == InitConc /\ [][NextConc]_vars

----------------------------------------------------------------------------
(* The coordinate mapper alone: one thread about to map a fragment whose   *)
(* box and image size range over the whole grid.                           *)

AllBoxes == [x : 0..One, y : 0..One, w : 0..One, h : 0..One]

Dims == {1, 3, 100}

InitMapper ==
    \E b \in AllBoxes, width \in Dims, height \in Dims :
        /\ api = "ready"
        /\ disk = CaptureFile(1, 1, <<width, height>>)
        /\ removable = TRUE
        /\ pc = [t \in {1} |-> "map"]
        /\ runNo = [t \in {1} |-> 1]
        /\ captured = [t \in {1} |-> "wrote"]
        /\ ocrStatus = [t \in {1} |-> "ok"]
        /\ results = [t \in {1} |-> << [text |-> <<12354>>, box |-> b] >>]
        /\ fut = [t \in {1} |-> << Done(<<12354>>) >>]
        /\ completed = [t \in {1} |-> <<1>>]
        /\ queue = <<>>
        /\ calls = [t \in {1} |-> <<0>>]
        /\ failed = [t \in {1} |-> {}]
        /\ translated_texts = [t \in {1} |-> << <<12354>> >>]
        /\ img = [t \in {1} |-> [size |-> <<width, height>>, ops |-> <<>>]]
        /\ i = [t \in {1} |-> 1]
        /\ rect = [t \in {1} |-> NoRect]
        /\ result = [t \in {1} |-> NoResult]

NextMapper == \E t \in Threads : MapBox(t)

SpecMapper == InitMapper /\ [][NextMapper]_vars

----------------------------------------------------------------------------
(* The controller states of the design, read off the place in the code *)

PhaseOf(p, kind) ==
    CASE p = "idle" -> "Idle"
      [] p \in {"capture", "check"} -> "Capturing"
      [] p = "ocr" -> "Extracting"
      [] p \in {"submit", "await"} -> "Translating"
      [] p \in {"open", "map"} -> "Mapping"
      [] p \in {"draw", "encode", "cleanup"} -> "Composing"
      [] p = "returned" -> IF kind = "image" THEN "Done" ELSE "Failed"

Rank(phase) ==
    CASE phase = "Idle" -> 0
      [] phase = "Capturing" -> 1
      [] phase = "Extracting" -> 2
      [] phase = "Translating" -> 3
      [] phase = "Mapping" -> 4
      [] phase = "Composing" -> 5
      [] phase \in {"Done", "Failed"} -> 6

Phase(t) == PhaseOf(pc[t], result[t].kind)

PhaseNext(t) == PhaseOf(pc'[t], result'[t].kind)

----------------------------------------------------------------------------
(* Properties *)

AfterTranslation(t) ==
    \/ pc[t] \in {"open", "map", "draw", "encode", "cleanup"}
    \/ pc[t] = "returned" /\ translated_texts[t] # <<>>

\* a capture file written by a run of this API instance is on disk
CaptureFileOnDisk == disk.exists /\ disk.writer # 0

CancelResults == { ErrorResult("Canceled or failed to capture"),
                   ErrorResult("Capture cancelled") }

\* C1: on every exit path of capture_and_translate the capture file written
\* by the instance's runs is gone when the call returns.
C1_NoCaptureFileOnReturn ==
    \A t \in Threads : pc[t] = "returned" => ~CaptureFileOnDisk

\* a file that an earlier process left and construction could not remove
LeftoverOnDisk == disk.exists /\ disk.writer = 0

\* C2: a run (first or later) whose capture wrote no file returns a
\* cancellation error, invokes neither OCR nor the translator, and leaves no
\* capture file on disk.  Stated for the runs that do not meet a file of an
\* earlier process, so that only this instance's own runs matter.
C2_CancelledCaptureIsClean ==
    \A t \in Threads :
        pc[t] = "returned" /\ captured[t] = "nofile" /\ ~LeftoverOnDisk =>
            /\ result[t] \in CancelResults
            /\ ocrStatus[t] = "none"
            /\ \A k \in DOMAIN calls[t] : calls[t][k] = 0
            /\ ~CaptureFileOnDisk

\* C3: whatever the completion order, translation yields one result per
\* fragment, and the text drawn at fragment k's box is a result computed from
\* fragment k's own text.
C3_ResultsMatchedByIndex ==
    \A t \in Threads :
        /\ AfterTranslation(t) => Len(translated_texts[t]) = Len(results[t])
        /\ \A k \in 1..Len(results[t]) :
              2 * k <= Len(img[t].ops) =>
                 LET item == results[t][k]
                     drawn == img[t].ops[2 * k]
                 IN  /\ drawn.op = "text"
                     /\ drawn.text \in {item.text, GoogleTranslate(item.text)}
                     /\ drawn.x0 = item.box.x * img[t].size[1]
                     /\ drawn.y0 = (One - (item.box.y + item.box.h)) * img[t].size[2]

\* C3 witness: an image was returned for two fragments with equal text and
\* different boxes whose translation calls completed in reverse order.
C3_Witness ==
    \E t \in Threads :
        /\ pc[t] = "returned" /\ result[t].kind = "image"
        /\ Len(results[t]) = 2
        /\ results[t][1].text = results[t][2].text
        /\ results[t][1].box # results[t][2].box
        /\ calls[t] = <<1, 1>>
        /\ completed[t] = <<2, 1>>
        /\ Len(img[t].ops) = 4

\* the result of a fragment when no translator call fails
UnfailedResult(text) ==
    IF \E c \in 1..Len(text) : InTargetScript(text[c]) THEN text
    ELSE GoogleTranslate(text)

\* C4: whichever calls fail, the batch has n results; a failed index holds
\* its source text and every other index holds what it would hold with no
\* failure at all.
C4_PartialFailureIsolated ==
    \A t \in Threads :
        AfterTranslation(t) =>
            /\ Len(translated_texts[t]) = Len(results[t])
            /\ \A k \in 1..Len(results[t]) :
                  translated_texts[t][k] =
                     IF k \in failed[t] THEN results[t][k].text
                     ELSE UnfailedResult(results[t][k].text)

\* C4 witness: of two fragments the first call failed and the second was
\* translated.
C4_Witness ==
    \E t \in Threads :
        /\ AfterTranslation(t)
        /\ Len(results[t]) = 2
        /\ failed[t] = {1}
        /\ calls[t][2] = 1
        /\ translated_texts[t][2] # results[t][2].text

\* C5: a fragment whose text contains a character of the target script is
\* passed through unchanged with no translator call; any other fragment
\* causes a call.
C5_SkipRule ==
    \A t \in Threads :
        \A k \in DOMAIN fut[t] :
            fut[t][k].st = "done" =>
                IF \E c \in 1..Len(results[t][k].text) :
                       InTargetScript(results[t][k].text[c])
                THEN fut[t][k].val = results[t][k].text /\ calls[t][k] = 0
                ELSE calls[t][k] = 1

\* C5 witness: a mixed text ("H" + hiragana) was passed through without a
\* call while the other fragment of the batch was sent to the translator.
C5_Witness ==
    \E t \in Threads :
        /\ Len(fut[t]) = 2
        /\ results[t][1].text = <<72, 12354>>
        /\ fut[t][1].st = "done" /\ calls[t][1] = 0
        /\ fut[t][2].st = "done" /\ calls[t][2] = 1

\* C6: when the OCR engine reports failure the run ends in an error that
\* differs from the 'No text detected' result.
C6_ExtractionFailureDistinct ==
    \A t \in Threads :
        pc[t] = "returned" /\ ocrStatus[t] = "failed" =>
            /\ result[t].kind = "error"
            /\ result[t] # ErrorResult("No text detected")

\* C7: every invocation returns an image result or an error result; no
\* exception leaves the call.
C7_AlwaysImageOrError ==
    \A t \in Threads :
        /\ result[t].kind # "raised"
        /\ pc[t] = "returned" =>
              \/ result[t].kind = "image" /\ result[t].error = ""
              \/ result[t].kind = "error" /\ result[t].image = <<>>

\* C7 witness: the last step of a run, the removal of the file, raised and
\* the call returned an error result.
C7_Witness ==
    \E t \in Threads :
        pc[t] = "returned" /\ result[t] = ErrorResult("cleanup")

ExampleBox == [x |-> 1, y |-> 8, w |-> 3, h |-> 1]

\* C10: for fragment k with mapped rectangle (x, y, w, h) the compositor
\* first fills (x-2, y-2)..(x+w+2, y+h+2) with white and then draws the
\* translated text at (x, y); on the 100x100 image the box {0.1, 0.8, 0.3,
\* 0.1} is filled from (8, 8) to (42, 22), the padded form of (10, 10, 30, 10).
C10_FillThenText ==
    \A t \in Threads :
        \A k \in 1..Len(results[t]) :
            2 * k <= Len(img[t].ops) =>
               LET r == toPixelRect(results[t][k].box, img[t].size[1], img[t].size[2])
                   bg == img[t].ops[2 * k - 1]
                   tx == img[t].ops[2 * k]
               IN  /\ bg.op = "rectangle" /\ bg.fill = "white"
                   /\ <<bg.x0, bg.y0>> = <<r.x - 2 * One, r.y - 2 * One>>
                   /\ <<bg.x1, bg.y1>> = <<r.x + r.w + 2 * One, r.y + r.h + 2 * One>>
                   /\ tx.op = "text" /\ tx.fill = "black"
                   /\ <<tx.x0, tx.y0>> = <<r.x, r.y>>
                   /\ tx.text = translated_texts[t][k]
                   /\ (img[t].size = <<100, 100>> /\ results[t][k].box = ExampleBox) =>
                         /\ r = [x |-> 10 * One, y |-> 10 * One, w |-> 30 * One, h |-> 10 * One]
                         /\ <<bg.x0, bg.y0, bg.x1, bg.y1>>
                               = <<8 * One, 8 * One, 42 * One, 22 * One>>

\* C10 witness: the example box drawn on the 100x100 image, translated.
C10_Witness ==
    \E t \in Threads :
        /\ pc[t] = "returned" /\ result[t].kind = "image"
        /\ img[t].size = <<100, 100>>
        /\ Len(results[t]) = 1
        /\ results[t][1] = [text |-> <<72, 105>>, box |-> ExampleBox]
        /\ img[t].ops[2].text = GoogleTranslate(<<72, 105>>)

\* C18: construction removes a capture file of an earlier process when it
\* can be removed, so the first run starts with no capture file on disk; when
\* the removal fails the failure is swallowed and the instance is still
\* constructed, the file left as it was.
C18_ConstructionCleansUp ==
    /\ api = "none" => ENABLED (Construct \/ ConstructRemoveFails)
    /\ (api = "ready" /\ \A t \in Threads : runNo[t] = 0) =>
          IF removable THEN disk = NoFile ELSE disk = Leftover

\* C18 witness: the instance is constructed, no run has started, and the
\* earlier process's file that could not be removed is still there.
C18_Witness ==
    /\ api = "ready"
    /\ \A t \in Threads : runNo[t] = 0
    /\ disk = Leftover /\ ~removable

\* C13: in one run the translator is called at most once per fragment: a
\* failed call is not repeated, and a fragment the skip rule passes through
\* is never sent.
C13_AtMostOneCallPerFragment ==
    \A t \in Threads :
        \A k \in DOMAIN calls[t] :
            /\ calls[t][k] <= 1
            /\ k \in failed[t] => calls[t][k] = 1 /\ fut[t][k].st = "done"
            /\ (\E c \in 1..Len(results[t][k].text) :
                   InTargetScript(results[t][k].text[c])) => calls[t][k] = 0

\* C13 witness: a run has ended in which the call for fragment 1 failed and
\* was made once, and fragment 2 was passed through without a call.
C13_Witness ==
    \E t \in Threads :
        /\ pc[t] = "returned"
        /\ Len(results[t]) = 2
        /\ failed[t] = {1}
        /\ calls[t] = <<1, 0>>
        /\ results[t][2].text = <<12354>>

\* messages of the exceptions raised after translation, none of them by the
\* translator
LaterStageErrors == {"open", "draw", "encode", "cleanup"}

\* C14: once capture wrote a file and OCR returned fragments, the run ends
\* with an image unless image opening, drawing, encoding or the removal of
\* the file raises; which translator calls failed plays no part, and the
\* image has every fragment drawn.
C14_TranslationFailureNeverFails ==
    \A t \in Threads :
        (pc[t] = "returned" /\ captured[t] = "wrote" /\ results[t] # <<>>) =>
            \/ /\ result[t].kind = "image"
               /\ Len(img[t].ops) = 2 * Len(results[t])
            \/ /\ result[t].kind = "error"
               /\ result[t].error \in LaterStageErrors

\* C14 witness: both translator calls of a run failed and the run returned
\* an image.
C14_Witness ==
    \E t \in Threads :
        /\ pc[t] = "returned" /\ result[t].kind = "image"
        /\ captured[t] = "wrote"
        /\ Len(results[t]) = 2
        /\ failed[t] = {1, 2}

\* C15: nothing is drawn, and the image is not even opened, while a
\* translation call of the run is outstanding: from the opening of the image
\* on, every future of the run has its result.
C15_FanInBarrier ==
    \A t \in Threads :
        (pc[t] \in {"open", "map", "draw", "encode", "cleanup"} \/ img[t].ops # <<>>) =>
            /\ \A k \in DOMAIN fut[t] : fut[t][k].st = "done"
            /\ DOMAIN fut[t] = DOMAIN results[t]
            /\ DOMAIN translated_texts[t] = DOMAIN results[t]

\* C15 witness: the first fragment is about to be drawn after two translator
\* calls that completed in reverse order.
C15_Witness ==
    \E t \in Threads :
        /\ pc[t] = "draw" /\ i[t] = 1
        /\ calls[t] = <<1, 1>>
        /\ completed[t] = <<2, 1>>

----------------------------------------------------------------------------
(* The pixels of the composed image.  A rectangle paints its closed box; a  *)
(* text paints at most the line box of its glyphs, FontSize high and        *)
(* FontSize wide per character, from its anchor.                            *)

Right(op) == IF op.op = "text" THEN op.x0 + FontSize * One * Len(op.text) ELSE op.x1

Bottom(op) == IF op.op = "text" THEN op.y0 + FontSize * One ELSE op.y1

Covers(op, px, py) ==
    /\ op.x0 <= px /\ px <= Right(op)
    /\ op.y0 <= py /\ py <= Bottom(op)

\* the index of the operation whose paint shows at (px, py); 0 for the capture
LastPaint(ops, px, py) ==
    LET hits == { q \in 1..Len(ops) : Covers(ops[q], px, py) }
    IN  IF hits = {} THEN 0 ELSE CHOOSE q \in hits : \A o \in hits : o <= q

\* the fragment that operation q was drawn for
OwnerOf(q) == (q + 1) \div 2

\* the corners of every painted box: one point in each region the boxes form
CornerXs(ops) == UNION { {ops[q].x0, Right(ops[q])} : q \in 1..Len(ops) }

CornerYs(ops) == UNION { {ops[q].y0, Bottom(ops[q])} : q \in 1..Len(ops) }

\* (px, py) lies in the rectangle r padded by 2 pixels on every side
InPadded(r, px, py) ==
    /\ r.x - 2 * One <= px /\ px <= r.x + r.w + 2 * One
    /\ r.y - 2 * One <= py /\ py <= r.y + r.h + 2 * One

\* C16: in the final image the fragments were composited in ascending
\* extraction index, each as fill then text, and a point of fragment j's
\* padded rectangle shows the paint of fragment j or of a later fragment,
\* never of a fragment before j.
C16_LastDrawnWins ==
    \A t \in Threads :
        (pc[t] = "returned" /\ result[t].kind = "image") =>
            LET ops == img[t].ops
                n == Len(results[t])
            IN  /\ Len(ops) = 2 * n
                /\ \A j \in 1..n :
                      LET r == toPixelRect(results[t][j].box, img[t].size[1], img[t].size[2])
                      IN  /\ ops[2 * j - 1].op = "rectangle"
                          /\ ops[2 * j - 1].x0 = r.x - 2 * One
                          /\ ops[2 * j - 1].y0 = r.y - 2 * One
                          /\ ops[2 * j].op = "text"
                          /\ <<ops[2 * j].x0, ops[2 * j].y0>> = <<r.x, r.y>>
                          /\ \A px \in CornerXs(ops) \cup {r.x - 2 * One, r.x + r.w + 2 * One},
                                py \in CornerYs(ops) \cup {r.y - 2 * One, r.y + r.h + 2 * One} :
                                InPadded(r, px, py) =>
                                    OwnerOf(LastPaint(ops, px, py)) >= j

\* C16 witness: two fragments with different, overlapping boxes on the
\* 100x100 image; a point of the second padded rectangle that the first
\* fragment painted too shows the second fragment's paint.
C16_Witness ==
    \E t \in Threads :
        /\ pc[t] = "returned" /\ result[t].kind = "image"
        /\ img[t].size = <<100, 100>>
        /\ Len(results[t]) = 2
        /\ results[t][1].box # results[t][2].box
        /\ \E px \in CornerXs(img[t].ops), py \in CornerYs(img[t].ops) :
              /\ Covers(img[t].ops[3], px, py)
              /\ Covers(img[t].ops[1], px, py) \/ Covers(img[t].ops[2], px, py)
              /\ OwnerOf(LastPaint(img[t].ops, px, py)) = 2

\* C17: given that capture returns and every translator call returns or
\* raises, a run that begins extraction reaches Done or Failed (the call
\* returns); no step of the model can stop it in between.
C17_RunTerminates ==
    \A t \in RunThreads : (pc[t] = "ocr") ~> (pc[t] = "returned")

\* C17 witness: a run that went through extraction, two translator calls
\* (one of them failing) and composition has returned its image.
C17_Witness ==
    \E t \in Threads :
        /\ pc[t] = "returned" /\ result[t].kind = "image"
        /\ ocrStatus[t] = "ok"
        /\ calls[t] = <<1, 1>>
        /\ failed[t] = {2}

\* the translator calls that have been made and have not returned
InFlight == { w \in UNION { {t} \X DOMAIN fut[t] : t \in Threads } :
                 fut[w[1]][w[2]].st = "calling" }

\* C11: at every moment at most 10 translator calls are in flight for the
\* API instance, however many fragments a run has and also when invocations
\* overlap.
C11_AtMostTenInFlight == Cardinality(InFlight) <= 10

\* C11 witness: ten calls of two overlapping invocations are in flight and
\* further work of the larger run waits in the queue.
C11_Witness ==
    /\ Cardinality(InFlight) = 10
    /\ \E w \in InFlight : w[1] = 1
    /\ \E w \in InFlight : w[1] = 2
    /\ Len(queue) >= 1

\* thread t is inside a run and the file on disk is the one this run wrote
OwnsCaptureFile(t) ==
    /\ pc[t] \notin {"idle", "returned"}
    /\ disk.exists /\ disk.writer = t /\ disk.run = runNo[t]

\* C12: the capture file belongs to one run at a time: while the run that
\* wrote it is still running, no step of another invocation overwrites or
\* deletes the file, and no other invocation runs OCR on it or opens it.
C12_ExclusiveCaptureFile ==
    [][\A t \in Threads :
          OwnsCaptureFile(t) =>
              /\ disk' # disk => pc'[t] # pc[t]
              /\ \A u \in Threads \ {t} :
                    pc[u] \in {"ocr", "open"} => pc'[u] = pc[u]]_vars

====
